---------------------------- MODULE Spec2Model ----------------------------
(***************************************************************************)
(* Model of the auto_gen content pipeline: the caption stage               *)
(* (llm_prompt.py), the image stage (image_gen.py), the video stage        *)
(* (video_gen.py), the publishing stage (post_api.py), the orchestrator   *)
(* (main.py) and the web front end (app.py).                               *)
(*                                                                         *)
(* Python values are tagged records [t, b, s]: t is the type tag, b the    *)
(* payload of a bool, s the payload of a str.  A str is a sequence of      *)
(* tokens; the token " " is whitespace, so that strip() is computed.  A    *)
(* path is a str whose tokens are its components; an absolute path starts  *)
(* with the token "/".                                                     *)
(***************************************************************************)
EXTENDS Integers, Sequences, FiniteSets, TLC

VARIABLES
    CLIENT,            \* llm_prompt.CLIENT: "None" or "client"
    get_T2I_pipeline,  \* image_gen.get_T2I_pipeline: "None" or "factory"
    Image,             \* image_gen.Image / main.Image: "None" or "PIL"
    cuda,              \* what torch.cuda.is_available() answers on this machine
    files,             \* the filesystem: absolute path -> content of the file
    dirs,              \* the filesystem: the directories that exist
    args,              \* the arguments the scenario calls the entry point with
    pc,                \* position of the call in progress
    last,              \* what the last call did: outcome and backend answers
    calls,             \* backend calls counted since the process started
    result,            \* run(): the result dict being built
    trace              \* run(): the stage invocations so far, with arguments

vars == <<CLIENT, get_T2I_pipeline, Image, cuda, files, dirs, args, pc, last,
          calls, result, trace>>

---------------------------------------------------------------------------
\* Bounds of the model.

\* Longest list of choices a completion response carries.
MaxChoices == 2
\* Longest list of images handed to stitch_video.
MaxImages == 2
\* Most calls of one entry point in a scenario.
MaxCalls == 2

---------------------------------------------------------------------------
\* Python values.

Str(s) == [t |-> "str", b |-> FALSE, s |-> s]
Bool(b) == [t |-> "bool", b |-> b, s |-> <<>>]
None == [t |-> "none", b |-> FALSE, s |-> <<>>]
\* An object that is neither a str, a bool nor None (an int, a list).
Obj == [t |-> "object", b |-> TRUE, s |-> <<>>]

IsStr(v) == v.t = "str"

\* bool(v).
Truthy(v) ==
    CASE v.t = "str" -> v.s # <<>>
      [] v.t = "bool" -> v.b
      [] v.t = "none" -> FALSE
      [] OTHER -> v.b

RECURSIVE LStrip(_)
LStrip(s) == IF s # <<>> /\ Head(s) = " " THEN LStrip(Tail(s)) ELSE s

RECURSIVE RStrip(_)
RStrip(s) ==
    IF s # <<>> /\ s[Len(s)] = " " THEN RStrip(SubSeq(s, 1, Len(s) - 1)) ELSE s

\* str.strip()
Strip(s) == LStrip(RStrip(s))

\* Dicts are functions from their keys.
Get(d, k, default) == IF k \in DOMAIN d THEN d[k] ELSE default
SetDefault(d, k, v) == IF k \in DOMAIN d THEN d ELSE d @@ (k :> v)
Put(d, k, v) == [x \in DOMAIN d \cup {k} |-> IF x = k THEN v ELSE d[x]]

\* Sequences over S of length at most n.
SeqsUpTo(S, n) == UNION {[1..k -> S] : k \in 0..n}

---------------------------------------------------------------------------
\* Sample inputs.

Topics ==
    {Obj, None, Str(<<>>), Str(<<" ", " ">>), Str(<<"shoes">>),
     Str(<<" ", "shoes", " ">>)}

\* What a choice of a completion response carries as message.content; None
\* also stands for a choice without message.
Contents ==
    {None, Obj, Str(<<>>), Str(<<" ">>), Str(<<"Buy">>),
     Str(<<" ", "Big", " ", "sale", " ">>)}

\* Answers of the completion backend to one request.
Responses ==
    {[raises |-> TRUE, choices |-> <<>>]}
    \cup {[raises |-> FALSE, choices |-> c] : c \in SeqsUpTo(Contents, MaxChoices)}

---------------------------------------------------------------------------
\* llm_prompt.py

DEFAULT_FALLBACK == <<"Test", " ", "caption">>

Returned(v, n) == [raised |-> "", ret |-> v, requests |-> n]
Raised(e, n) == [raised |-> e, ret |-> None, requests |-> n]

\* `content.strip()` without the `or fallback`.
StripOnly(content, fallback) == Strip(content)

\* `content.strip() or fallback`
StripOrFallback(content, fallback) ==
    IF Strip(content) # <<>> THEN Strip(content) ELSE fallback

\* A try block that repeats the request once when it raised.
CompletionRetrying(response, fallback) ==
    IF response.raises THEN Returned(Str(fallback), 2)
    ELSE IF response.choices = <<>> THEN Returned(Str(fallback), 1)
    ELSE LET content == response.choices[1]
         IN  IF ~IsStr(content) THEN Returned(Str(fallback), 1)
             ELSE Returned(Str(StripOrFallback(content.s, fallback)), 1)

\* A try block that reads the last choice of the response.
CompletionLastChoice(response, fallback) ==
    IF response.raises THEN Returned(Str(fallback), 1)
    ELSE IF response.choices = <<>> THEN Returned(Str(fallback), 1)
    ELSE LET content == response.choices[Len(response.choices)]
         IN  IF ~IsStr(content) THEN Returned(Str(fallback), 1)
             ELSE Returned(Str(StripOrFallback(content.s, fallback)), 1)

\* The body of the try block: one request, then the first choice.
Completion(response, fallback) ==
    IF response.raises THEN Returned(Str(fallback), 1)
    ELSE IF response.choices = <<>> THEN Returned(Str(fallback), 1)
    ELSE LET content == response.choices[1]
         IN  IF ~IsStr(content) THEN Returned(Str(fallback), 1)
             ELSE Returned(Str(StripOrFallback(content.s, fallback)), 1)

make_prompt(topic, client, response) ==
    IF ~IsStr(topic) THEN Raised("TypeError", 0)
    ELSE IF Strip(topic.s) = <<>> THEN Raised("ValueError", 0)
    ELSE IF client = "None" THEN Returned(Str(DEFAULT_FALLBACK), 0)
    ELSE Completion(response, DEFAULT_FALLBACK)

---------------------------------------------------------------------------
\* The filesystem.  `files` maps the absolute path of each existing file to
\* its content, `dirs` holds the existing directories.

CWD == <<"/", "cwd">>

\* Path(p).expanduser().resolve()
Resolve(p) == IF p # <<>> /\ Head(p) = "/" THEN p ELSE CWD \o p

\* Path.parent
Parent(p) == SubSeq(p, 1, Len(p) - 1)

\* Path(p).is_file() / Path(p).exists(), relative paths taken from the cwd.
IsFile(fs, p) == Resolve(p) \in DOMAIN fs.files

\* Path.mkdir(parents=True, exist_ok=True)
Mkdir(fs, d) ==
    [fs EXCEPT !.dirs = @ \cup {SubSeq(d, 1, k) : k \in 2..Len(d)}]

\* Path.write_bytes / write_text / image.save
WriteFile(fs, p, content) ==
    [fs EXCEPT !.files =
        [q \in DOMAIN @ \cup {Resolve(p)} |->
            IF q = Resolve(p) THEN content ELSE @[q]]]

Content(kind, text, src) == [kind |-> kind, text |-> text, src |-> src]

\* base64.b64decode(PLACEHOLDER_PNG): the same literal in image_gen.py and
\* main.py.
PLACEHOLDER_PNG == Content("png_1x1", <<>>, <<>>)

\* A file left by an earlier process.
Stale == Content("stale", <<>>, <<>>)

OUT_PNG == <<"out.png">>
OUT_MP4 == <<"out.mp4">>
NEW_PNG == <<"gen", "out.png">>
NEW_MP4 == <<"clips", "out.mp4">>
MISSING_PNG == <<"missing.png">>

---------------------------------------------------------------------------
\* image_gen.py

\* A resolution that hands an explicit request back without asking whether
\* CUDA is available.
ResolveDeviceTrusting(requested_device, cuda_available) ==
    IF requested_device \in {None, Str(<<>>), Str(<<"auto">>)}
    THEN IF cuda_available THEN Str(<<"cuda:0">>) ELSE Str(<<"cpu">>)
    ELSE requested_device

_resolve_device(requested_device, cuda_available) ==
    IF requested_device \in {None, Str(<<>>), Str(<<"auto">>)}
    THEN IF cuda_available THEN Str(<<"cuda:0">>) ELSE Str(<<"cpu">>)
    ELSE IF requested_device # Str(<<"cpu">>) /\ cuda_available
         THEN requested_device
         ELSE Str(<<"cpu">>)

\* Creates the parent directory only when it does not exist; env.io tells
\* whether the filesystem accepts modifications during this call.
_ensure_output_path(path, env, fs) ==
    IF Parent(path) \in fs.dirs THEN [raised |-> "", fs |-> fs]
    ELSE IF env.io THEN [raised |-> "", fs |-> Mkdir(fs, Parent(path))]
    ELSE [raised |-> "OSError", fs |-> fs]

\* A placeholder that carries the moment it was rendered.
PlaceholderStamped(prompt, pil) ==
    Content(IF pil = "None" THEN "png_1x1" ELSE "png_placeholder_canvas",
            prompt, IF calls.entry = 0 THEN <<"first">> ELSE <<"later">>)

\* The content _placeholder_image writes: the embedded 1x1 PNG without
\* Pillow, otherwise a canvas rendered from the title and the prompt.
PlaceholderContent(prompt, pil) ==
    IF pil = "None" THEN PLACEHOLDER_PNG
    ELSE Content("png_placeholder_canvas", prompt, <<>>)

\* A placeholder generator that returns the path without writing the file.
PlaceholderNotWritten(prompt, output_path, env, fs) ==
    [raised |-> "", ret |-> Str(output_path), fs |-> fs]

_placeholder_image(prompt, output_path, env, fs) ==
    IF env.io
    THEN [raised |-> "", ret |-> Str(output_path),
          fs |-> WriteFile(fs, output_path, PlaceholderContent(prompt, env.pil))]
    ELSE [raised |-> "OSError", ret |-> None, fs |-> fs]

\* Calls of get_T2I_pipeline one generate_image call makes: the module keeps
\* no instance, every call that finds the factory constructs a pipeline.
Constructs(env) == IF env.factory = "None" THEN 0 ELSE 1

\* A backend wrapper that hands the output path back although saving the
\* image raised.
GenerateTrustingSave(prompt, output_path, device, env, fs) ==
    LET nothing(invoked) ==
            [ret |-> None, fs |-> fs, invokes |-> invoked]
    IN  IF env.factory = "None" THEN nothing(0)
        ELSE IF env.pipeline = "construct_raises" THEN nothing(0)
        ELSE IF env.pipeline = "invoke_raises" THEN nothing(1)
        ELSE IF env.pipeline = "no_images" THEN nothing(1)
        ELSE IF env.pipeline = "save_raises" \/ ~env.io
        THEN [ret |-> Str(output_path), fs |-> fs, invokes |-> 1]
        ELSE [ret |-> Str(output_path),
              fs |-> WriteFile(fs, output_path,
                               Content("png_generated", prompt, <<>>)),
              invokes |-> 1]

\* env.pipeline is what the diffusion backend does in this call:
\* "construct_raises", "invoke_raises", "no_images", "save_raises" or "ok".
\* Returns the saved path or None, never raises.
_generate_with_kandinsky(prompt, output_path, device, env, fs) ==
    LET nothing(invoked) ==
            [ret |-> None, fs |-> fs, invokes |-> invoked]
    IN  IF env.factory = "None" THEN nothing(0)
        ELSE IF env.pipeline = "construct_raises" THEN nothing(0)
        ELSE IF env.pipeline = "invoke_raises" THEN nothing(1)
        ELSE IF env.pipeline = "no_images" THEN nothing(1)
        ELSE IF env.pipeline = "save_raises" \/ ~env.io THEN nothing(1)
        ELSE [ret |-> Str(output_path),
              fs |-> WriteFile(fs, output_path,
                               Content("png_generated", prompt, <<>>)),
              invokes |-> 1]

ImageOutcome(raised, ret, fs, constructs, invokes) ==
    [raised |-> raised, ret |-> ret, fs |-> fs,
     constructs |-> constructs, invokes |-> invokes]

\* `isinstance(v, str) and v.strip()`
NonBlankStr(v) == IsStr(v) /\ Strip(v.s) # <<>>

generate_image(prompt, output_path, device, env, fs) ==
    IF ~NonBlankStr(prompt) THEN ImageOutcome("ValueError", None, fs, 0, 0)
    ELSE IF ~NonBlankStr(output_path)
    THEN ImageOutcome("ValueError", None, fs, 0, 0)
    ELSE
    LET output_file == Resolve(output_path.s)
        ensured == _ensure_output_path(output_file, env, fs)
    IN  IF ensured.raised # "" THEN ImageOutcome("OSError", None, fs, 0, 0)
        ELSE IF device # None /\ ~IsStr(device)
        THEN ImageOutcome("ValueError", None, ensured.fs, 0, 0)
        ELSE
        LET selected_device == _resolve_device(device, env.cuda)
            generated == _generate_with_kandinsky(prompt.s, output_file,
                                                  selected_device, env, ensured.fs)
            constructs == Constructs(env)
        IN  IF generated.ret # None
            THEN ImageOutcome("", generated.ret, generated.fs, constructs,
                              generated.invokes)
            ELSE
            LET placeholder == _placeholder_image(prompt.s, output_file, env,
                                                  generated.fs)
            IN  ImageOutcome(placeholder.raised, placeholder.ret,
                             placeholder.fs, constructs, generated.invokes)

---------------------------------------------------------------------------
\* video_gen.py

\* The text _simulate_video writes: the sentinel message and the source image.
SimulatedVideo(source_image) ==
    Content("text_simulated_video",
            <<"Simulated video output. Install ffmpeg to generate real footage from the source image.">>,
            source_image)

_simulate_video(output_path, source_image, env, fs) ==
    IF env.io
    THEN [raised |-> "", ret |-> Str(output_path),
          fs |-> WriteFile(fs, output_path, SimulatedVideo(source_image))]
    ELSE [raised |-> "OSError", ret |-> None, fs |-> fs]

VideoOutcome(raised, ret, fs, probes, encoders) ==
    [raised |-> raised, ret |-> ret, fs |-> fs,
     probes |-> probes, encoders |-> encoders]

\* A validation that looks at the first image only.
FirstImageMissing(images, fs) == ~IsFile(fs, images[1].s)

\* `for image_path in image_paths: if not image_path.is_file()`
SomeImageMissing(images, fs) ==
    \E i \in 1..Len(images) : ~IsFile(fs, images[i].s)

\* What the encoder process leaves at the output path when it exits 0:
\* env.encoder is "exit0_video" (a clip), "exit0_empty" (a file of no
\* bytes) or "exit0_nothing" (no file written).
EncoderOutput(output_path, image_paths, env, fs) ==
    CASE env.encoder = "exit0_video" ->
            WriteFile(fs, output_path, Content("mp4", <<>>, image_paths[1]))
      [] env.encoder = "exit0_empty" ->
            WriteFile(fs, output_path, Content("empty", <<>>, <<>>))
      [] OTHER -> fs

\* The strict policy: a non-zero exit surfaces as CalledProcessError.
AfterEncoderStrict(output_path, image_paths, env, fs) ==
    IF env.encoder = "spawn_error"
    THEN VideoOutcome("PermissionError", None, fs, 1, 1)
    ELSE IF env.encoder = "nonzero"
    THEN VideoOutcome("CalledProcessError", None, fs, 1, 1)
    ELSE VideoOutcome("", Str(output_path),
                      EncoderOutput(output_path, image_paths, env, fs), 1, 1)

\* subprocess.run(command, check=True) and what follows it: env.encoder is
\* one of the exit-0 outcomes, "nonzero" (CalledProcessError, caught) or
\* "spawn_error" (the process could not be started: a PermissionError, which
\* the except clause does not catch).
AfterEncoder(output_path, image_paths, env, fs) ==
    LET simulated == _simulate_video(output_path, image_paths[1], env, fs)
    IN  IF env.encoder = "spawn_error"
        THEN VideoOutcome("PermissionError", None, fs, 1, 1)
        ELSE IF env.encoder = "nonzero"
        THEN VideoOutcome(simulated.raised, simulated.ret, simulated.fs, 1, 1)
        ELSE VideoOutcome("", Str(output_path),
                          EncoderOutput(output_path, image_paths, env, fs), 1, 1)

\* images is a sequence of str paths; env.ffmpeg tells whether
\* shutil.which("ffmpeg") finds the binary.
stitch_video(images, output, env, fs) ==
    IF images = <<>> THEN VideoOutcome("ValueError", None, fs, 0, 0)
    ELSE IF SomeImageMissing(images, fs)
    THEN VideoOutcome("ValueError", None, fs, 0, 0)
    ELSE
    LET image_paths == [i \in 1..Len(images) |-> Resolve(images[i].s)]
        output_path == Resolve(output.s)
        made == Mkdir(fs, Parent(output_path))
    IN  IF Parent(output_path) \notin fs.dirs /\ ~env.io
        THEN VideoOutcome("OSError", None, fs, 0, 0)
        ELSE IF ~env.ffmpeg
        THEN LET simulated == _simulate_video(output_path, image_paths[1], env, made)
             IN  VideoOutcome(simulated.raised, simulated.ret, simulated.fs, 1, 0)
        ELSE AfterEncoder(output_path, image_paths, env, made)

---------------------------------------------------------------------------
\* post_api.py

\* Path(image_path), which str() renders without the "." components.
NotDot(component) == component # "."
PathOf(p) == SelectSeq(p, NotDot)

\* A token taken as it is set, without `.strip()`.
TokenUnstripped(token) == IF Truthy(token) THEN token ELSE None

\* os.getenv(env_key) is None (unset) or a str.
_load_token(token) == IF Truthy(token) THEN Str(Strip(token.s)) ELSE None

_simulate_post(platform, text, image_path) ==
    [k \in {"success", "simulated", "platform", "text", "image_path"} |->
        CASE k = "success" -> Bool(TRUE)
          [] k = "simulated" -> Bool(TRUE)
          [] k = "platform" -> Str(<<platform>>)
          [] k = "text" -> text
          [] OTHER -> Str(image_path)]

PostOutcome(raised, ret, uploads) ==
    [raised |-> raised, ret |-> ret, uploads |-> uploads]

FileNotFound(image_path) ==
    [k \in {"success", "error"} |->
        IF k = "success" THEN Bool(FALSE)
        ELSE Str(<<"Image file not found at">>)]

UnexpectedFormat ==
    [k \in {"success", "error", "response"} |->
        CASE k = "success" -> Bool(FALSE)
          [] k = "error" -> Str(<<"Unexpected response format from Facebook API.">>)
          [] OTHER -> Obj]

\* response.json(), with the ValueError of a body that is not JSON caught:
\* body.kind is "mapping" (body.map the dict), "not_json" or "other".
Payload(body) ==
    IF body.kind = "not_json"
    THEN [kind |-> "mapping", map |-> [k \in {"raw_response"} |-> Str(<<"<html>">>)]]
    ELSE body

\* A strict policy: an error status is reported as a failure.
AfterResponseStrict(text, image_path, remote) ==
    LET payload == Payload(remote.body)
    IN  IF remote.status >= 400
        THEN PostOutcome("", [k \in {"success", "error"} |->
                                IF k = "success" THEN Bool(FALSE)
                                ELSE Str(<<"Facebook API returned an error status.">>)], 1)
        ELSE IF payload.kind = "mapping"
        THEN PostOutcome("", SetDefault(payload.map, "success", Bool(TRUE)), 1)
        ELSE PostOutcome("", UnexpectedFormat, 1)

\* What follows a response of the remote endpoint.
AfterResponse(text, image_path, remote) ==
    LET payload == Payload(remote.body)
    IN  IF remote.status >= 400
        THEN PostOutcome("", _simulate_post("facebook", text, image_path), 1)
        ELSE IF payload.kind = "mapping"
        THEN PostOutcome("", SetDefault(payload.map, "success", Bool(TRUE)), 1)
        ELSE PostOutcome("", UnexpectedFormat, 1)

\* A post_to_facebook that looks for the credential before the file.
TokenBeforeFile(text, image_path, env, fs) ==
    LET path_obj == PathOf(image_path.s)
    IN  IF ~Truthy(_load_token(env.token))
        THEN PostOutcome("", _simulate_post("facebook", text, path_obj), 0)
        ELSE IF ~IsFile(fs, path_obj)
        THEN PostOutcome("", FileNotFound(image_path.s), 0)
        ELSE IF env.remote.kind = "open_oserror"
        THEN PostOutcome("", _simulate_post("facebook", text, path_obj), 0)
        ELSE IF env.remote.kind = "request_exception"
        THEN PostOutcome("", _simulate_post("facebook", text, path_obj), 1)
        ELSE IF env.remote.kind = "other_error"
        THEN PostOutcome("RuntimeError", << >>, 1)
        ELSE AfterResponse(text, path_obj, env.remote)

\* env.token is the value of FB_PAGE_TOKEN; env.remote.kind is what the
\* upload does: "open_oserror" (the image cannot be opened),
\* "request_exception", "other_error" (an exception that is neither) or
\* "response".
post_to_facebook(text, image_path, env, fs) ==
    LET path_obj == PathOf(image_path.s)
    IN  IF ~IsFile(fs, path_obj) THEN PostOutcome("", FileNotFound(image_path.s), 0)
        ELSE IF ~Truthy(_load_token(env.token))
        THEN PostOutcome("", _simulate_post("facebook", text, path_obj), 0)
        ELSE IF env.remote.kind = "open_oserror"
        THEN PostOutcome("", _simulate_post("facebook", text, path_obj), 0)
        ELSE IF env.remote.kind = "request_exception"
        THEN PostOutcome("", _simulate_post("facebook", text, path_obj), 1)
        ELSE IF env.remote.kind = "other_error"
        THEN PostOutcome("RuntimeError", << >>, 1)
        ELSE AfterResponse(text, path_obj, env.remote)

---------------------------------------------------------------------------
\* main.py

\* Path("out.png") and Path("out.mp4"), relative to the cwd.
image_output == OUT_PNG
video_output == OUT_MP4

\* The caption run() starts from, kept when make_prompt raises.
TEST_CAPTION == <<"Test", " ", "caption">>

\* The parent of the relative output is the cwd, which exists; env.io tells
\* whether the write succeeds.
_fallback_image(path, text, env, fs) ==
    IF ~env.io THEN [raised |-> "OSError", ret |-> None, fs |-> fs]
    ELSE [raised |-> "", ret |-> Str(path),
          fs |-> WriteFile(Mkdir(fs, Parent(Resolve(path))), path,
                           IF env.pil = "None" THEN PLACEHOLDER_PNG
                           ELSE Content("png_fallback_canvas", text, <<>>))]

\* The text run() writes when stitch_video raised.
StitchingFailure ==
    Content("text_stitching_failure",
            <<"Simulated video output due to stitching failure.">>, <<>>)

\* The dict run() starts with.
NewResult(topic) ==
    [k \in {"success", "topic"} |-> IF k = "success" THEN Bool(TRUE) ELSE topic]

\* try: make_prompt(topic) / except: keep the test caption.
CaptionStage(topic, client, response) ==
    LET out == make_prompt(topic, client, response)
    IN  [stage_raised |-> out.raised,
         prompt_text |-> IF out.raised = "" THEN out.ret ELSE Str(TEST_CAPTION),
         requests |-> out.requests]

\* try: generate_image(prompt_text, "out.png") / except: _fallback_image.
\* env.io_fallback tells whether the handler's own write succeeds; `escaped`
\* is the exception that leaves run().
ImageStage(prompt_text, env, fs) ==
    LET out == generate_image(prompt_text, Str(image_output), Str(<<"auto">>), env, fs)
        fallback == _fallback_image(image_output, prompt_text.s,
                                    [io |-> env.io_fallback, pil |-> env.pil], out.fs)
    IN  IF out.raised = ""
        THEN [stage_raised |-> "", escaped |-> "", image_path |-> out.ret,
              fs |-> out.fs, constructs |-> out.constructs, invokes |-> out.invokes]
        ELSE [stage_raised |-> out.raised, escaped |-> fallback.raised,
              image_path |-> fallback.ret, fs |-> fallback.fs,
              constructs |-> out.constructs, invokes |-> out.invokes]

\* try: stitch_video([image_path], "out.mp4") / except: write the sentinel
\* text to out.mp4.
VideoStage(image_path, env, fs) ==
    LET out == stitch_video(<<image_path>>, Str(video_output), env, fs)
    IN  IF out.raised = ""
        THEN [stage_raised |-> "", escaped |-> "", video_path |-> out.ret,
              fs |-> out.fs, probes |-> out.probes, encoders |-> out.encoders]
        ELSE IF env.io_fallback
        THEN [stage_raised |-> out.raised, escaped |-> "",
              video_path |-> Str(video_output),
              fs |-> WriteFile(out.fs, video_output, StitchingFailure),
              probes |-> out.probes, encoders |-> out.encoders]
        ELSE [stage_raised |-> out.raised, escaped |-> "OSError",
              video_path |-> None, fs |-> out.fs,
              probes |-> out.probes, encoders |-> out.encoders]

\* The dict run() builds when post_to_facebook raised.
SynthesizedResponse(prompt_text, image_path) ==
    [k \in {"success", "simulated", "platform", "text", "image_path"} |->
        CASE k = "success" -> Bool(TRUE)
          [] k = "simulated" -> Bool(TRUE)
          [] k = "platform" -> Str(<<"facebook">>)
          [] k = "text" -> prompt_text
          [] OTHER -> image_path]

\* try: post_to_facebook(prompt_text, image_path) / except: a simulated
\* success built by run() itself.
PublishStage(prompt_text, image_path, env, fs) ==
    LET out == post_to_facebook(prompt_text, image_path, env, fs)
    IN  [stage_raised |-> out.raised,
         facebook_response |->
            IF out.raised = "" THEN out.ret
            ELSE SynthesizedResponse(prompt_text, image_path),
         uploads |-> out.uploads]

\* An ending that copies the error only when the publish result has one.
FinishCopiesError(res, facebook_response) ==
    LET success == Truthy(Get(facebook_response, "success", None))
        stored == Put(Put(res, "facebook_response", facebook_response),
                      "success", Bool(success))
    IN  IF success \/ "error" \notin DOMAIN facebook_response THEN stored
        ELSE Put(stored, "error", facebook_response["error"])

\* result["success"] = bool(facebook_response.get("success")), and the error
\* field when it is false.
Finish(res, facebook_response) ==
    LET success == Truthy(Get(facebook_response, "success", None))
        stored == Put(Put(res, "facebook_response", facebook_response),
                      "success", Bool(success))
    IN  IF success THEN stored
        ELSE Put(stored, "error",
                 Get(facebook_response, "error", Str(<<"Unknown error.">>)))

---------------------------------------------------------------------------
\* Scenarios: the state of the process before the entry point is called.

NoCalls ==
    [completion |-> 0, construct |-> 0, invoke |-> 0, probe |-> 0,
     encoder |-> 0, upload |-> 0, entry |-> 0]

NoCall == [op |-> "none"]

NoFiles == [p \in {} |-> Stale]

\* Filesystems a process can start in: the cwd exists; the image, the clip
\* and the directories of earlier calls may be there.
InitialFs ==
    {[files |-> f, dirs |-> d] :
        f \in {NoFiles, [p \in {Resolve(OUT_PNG), Resolve(OUT_MP4)} |-> Stale]},
        d \in {{CWD}, {CWD, Parent(Resolve(NEW_PNG)), Parent(Resolve(NEW_MP4))}}}

Fs == [files |-> files, dirs |-> dirs]

InitCommon ==
    /\ pc = "ready"
    /\ last = NoCall
    /\ calls = NoCalls
    /\ result = <<>>
    /\ trace = <<>>

---------------------------------------------------------------------------
\* SpecCaption: calls of make_prompt.

InitCaption ==
    /\ CLIENT \in {"None", "client"}
    /\ get_T2I_pipeline = "None"
    /\ Image = "None"
    /\ cuda = FALSE
    /\ files = NoFiles
    /\ dirs = {CWD}
    /\ args \in [topic : Topics]
    /\ InitCommon

CallMakePrompt ==
    /\ pc = "ready"
    /\ \E response \in Responses :
        LET out == make_prompt(args.topic, CLIENT, response)
        IN  /\ last' = [op |-> "make_prompt", response |-> response,
                        raised |-> out.raised, ret |-> out.ret]
            /\ calls' = [calls EXCEPT !.completion = @ + out.requests,
                                      !.entry = @ + 1]
    /\ pc' = "done"
    /\ UNCHANGED <<CLIENT, get_T2I_pipeline, Image, cuda, files, dirs, args, result, trace>>

NextCaption == CallMakePrompt

SpecCaption == InitCaption /\ [][NextCaption]_vars

---------------------------------------------------------------------------
\* SpecImage: a sequence of generate_image calls with the same arguments.

ImagePrompts == {Obj, Str(<<>>), Str(<<" ">>), Str(<<"red", " ", "shoes">>)}
OutputPaths == {Obj, Str(<<>>), Str(<<" ">>), Str(OUT_PNG), Str(NEW_PNG)}
Devices == {None, Str(<<"cuda:1">>), Obj}

\* What the diffusion backend can do in one call; without the factory there
\* is no backend to do anything.
PipelineOutcomes ==
    IF get_T2I_pipeline = "None" THEN {"absent"}
    ELSE {"construct_raises", "invoke_raises", "no_images", "save_raises", "ok"}

ImageEnv(pipeline, io) ==
    [factory |-> get_T2I_pipeline, pil |-> Image, cuda |-> cuda,
     pipeline |-> pipeline, io |-> io]

InitImage ==
    /\ CLIENT = "None"
    /\ get_T2I_pipeline \in {"None", "factory"}
    /\ Image \in {"None", "PIL"}
    /\ cuda \in BOOLEAN
    /\ \E fs \in InitialFs : files = fs.files /\ dirs = fs.dirs
    /\ args \in [prompt : ImagePrompts, output_path : OutputPaths, device : Devices]
    /\ InitCommon

CallGenerateImage ==
    /\ pc = "ready"
    /\ calls.entry < MaxCalls
    /\ \E pipeline \in PipelineOutcomes, io \in BOOLEAN :
        LET env == ImageEnv(pipeline, io)
            out == generate_image(args.prompt, args.output_path, args.device, env, Fs)
        IN  /\ last' = [op |-> "generate_image", env |-> env, raised |-> out.raised,
                        ret |-> out.ret, before |-> Fs]
            /\ files' = out.fs.files
            /\ dirs' = out.fs.dirs
            /\ calls' = [calls EXCEPT !.construct = @ + out.constructs,
                                      !.invoke = @ + out.invokes,
                                      !.entry = @ + 1]
    /\ UNCHANGED <<CLIENT, get_T2I_pipeline, Image, cuda, args, pc, result, trace>>

NextImage == CallGenerateImage

SpecImage == InitImage /\ [][NextImage]_vars

---------------------------------------------------------------------------
\* SpecVideo: calls of stitch_video.

EncoderOutcomes ==
    {"exit0_video", "exit0_empty", "exit0_nothing", "nonzero", "spawn_error"}

\* An encoder that left a file at the output path could write there.
VideoEnvs ==
    {e \in [ffmpeg : BOOLEAN, encoder : EncoderOutcomes, io : BOOLEAN] :
        e.encoder \in {"exit0_video", "exit0_empty"} => e.io}

InitVideo ==
    /\ CLIENT = "None"
    /\ get_T2I_pipeline = "None"
    /\ Image = "None"
    /\ cuda = FALSE
    /\ \E fs \in InitialFs : files = fs.files /\ dirs = fs.dirs
    /\ args \in [images : SeqsUpTo({Str(OUT_PNG), Str(Resolve(OUT_PNG)),
                                    Str(MISSING_PNG)}, MaxImages),
                 output : {Str(OUT_MP4), Str(NEW_MP4)}]
    /\ InitCommon

CallStitchVideo ==
    /\ pc = "ready"
    /\ \E env \in VideoEnvs :
        LET out == stitch_video(args.images, args.output, env, Fs)
        IN  /\ last' = [op |-> "stitch_video", env |-> env, raised |-> out.raised,
                        ret |-> out.ret, before |-> Fs]
            /\ files' = out.fs.files
            /\ dirs' = out.fs.dirs
            /\ calls' = [calls EXCEPT !.probe = @ + out.probes,
                                      !.encoder = @ + out.encoders,
                                      !.entry = @ + 1]
    /\ pc' = "done"
    /\ UNCHANGED <<CLIENT, get_T2I_pipeline, Image, cuda, args, result, trace>>

NextVideo == CallStitchVideo

SpecVideo == InitVideo /\ [][NextVideo]_vars

---------------------------------------------------------------------------
\* Claims about the stages.

\* The topic passes make_prompt's validation.
ValidTopic(t) == IsStr(t) /\ Strip(t.s) # <<>>

\* C10: make_prompt raises only during input validation (a topic that is not
\* a string, or is empty after trimming); for every topic that passes the
\* validation it raises nothing and returns a non-empty string, whatever the
\* completion backend does.
C10_RaisesOnlyInValidation ==
    last.op = "make_prompt" =>
        IF ValidTopic(args.topic)
        THEN last.raised = "" /\ IsStr(last.ret) /\ last.ret.s # <<>>
        ELSE last.raised \in {"TypeError", "ValueError"}

\* C10 witness: a client is configured, the topic is valid and the first
\* choice carries blank text; the call returned.
C10_Witness ==
    /\ last.op = "make_prompt"
    /\ CLIENT = "client"
    /\ ValidTopic(args.topic)
    /\ ~last.response.raises
    /\ Len(last.response.choices) > 0
    /\ last.response.choices[1] = Str(<<" ">>)
    /\ last.raised = ""

\* The first choice of the response carries text that is not blank.
FirstChoiceHasText(response) ==
    /\ ~response.raises
    /\ response.choices # <<>>
    /\ IsStr(response.choices[1])
    /\ Strip(response.choices[1].s) # <<>>

\* C11: for a valid topic make_prompt returns exactly the fixed fallback
\* string when no client is configured (no request is then issued), when the
\* request raises, when the response has no choices, or when the first
\* choice's content is not text or is empty after trimming; in every other
\* case it returns the first choice's content trimmed, whatever the later
\* choices carry.
C11_FallbackOrFirstChoice ==
    (last.op = "make_prompt" /\ ValidTopic(args.topic)) =>
        /\ last.raised = ""
        /\ CLIENT = "None" =>
                last.ret = Str(DEFAULT_FALLBACK) /\ calls.completion = 0
        /\ (CLIENT # "None" /\ ~FirstChoiceHasText(last.response)) =>
                last.ret = Str(DEFAULT_FALLBACK)
        /\ (CLIENT # "None" /\ FirstChoiceHasText(last.response)) =>
                last.ret = Str(Strip(last.response.choices[1].s))

\* C11 witness: a client is configured, the first choice carries text with
\* surrounding whitespace, a later choice carries other text, and the call
\* returned the first one trimmed.
C11_Witness ==
    /\ last.op = "make_prompt"
    /\ CLIENT = "client"
    /\ ValidTopic(args.topic)
    /\ ~last.response.raises
    /\ Len(last.response.choices) > 1
    /\ last.response.choices[1] = Str(<<" ", "Big", " ", "sale", " ">>)
    /\ last.response.choices[2] = Str(<<"Buy">>)
    /\ last.ret = Str(<<"Big", " ", "sale">>)

\* The arguments pass generate_image's validation.
ValidImageArgs ==
    /\ NonBlankStr(args.prompt)
    /\ NonBlankStr(args.output_path)
    /\ (args.device = None \/ IsStr(args.device))

\* The diffusion backend did not deliver a saved image in the last call.
BackendFailed == last.env.factory = "None" \/ last.env.pipeline # "ok"

\* What the claim promises of a generate_image call: it returned the
\* (resolved) output path, the file is there, and it is the placeholder.
PlaceholderDelivered ==
    /\ last.raised = ""
    /\ last.ret = Str(Resolve(args.output_path.s))
    /\ IsFile(Fs, args.output_path.s)
    /\ files[Resolve(args.output_path.s)] =
            PlaceholderContent(args.prompt.s, Image)

C18_PlaceholderIdempotent ==
    [][(/\ get_T2I_pipeline = "None"
        /\ last.op = "generate_image" /\ last.raised = ""
        /\ calls'.entry = calls.entry + 1
        /\ last'.raised = "") =>
            LET output_file == Resolve(args.output_path.s)
            IN  /\ output_file \in DOMAIN files
                /\ output_file \in DOMAIN files'
                /\ files'[output_file] = files[output_file]
                /\ files'[output_file] = PlaceholderContent(args.prompt.s, Image)]_vars

\* C18 witness: without backend and with Pillow, the second of two calls
\* returned, the first having left the placeholder at the output path.
C18_Witness ==
    /\ last.op = "generate_image"
    /\ get_T2I_pipeline = "None"
    /\ Image = "PIL"
    /\ calls.entry = 2
    /\ last.raised = ""
    /\ Resolve(args.output_path.s) \in DOMAIN last.before.files
    /\ last.before.files[Resolve(args.output_path.s)] =
            PlaceholderContent(args.prompt.s, Image)
    /\ files[Resolve(args.output_path.s)] =
            last.before.files[Resolve(args.output_path.s)]

\* C21: when generate_image rejects its arguments with the invalid-input
\* error (a caption or an output_path that is not a non-empty string, a
\* device that is neither a string nor absent), the filesystem is as it was
\* before the call: no directory created, no file written.
C21_RejectionLeavesFilesystem ==
    (last.op = "generate_image" /\ last.raised = "ValueError") =>
        Fs = last.before

\* C6: across the generate_image calls of one process the diffusion pipeline
\* is constructed at most once.
C6_PipelineConstructedOnce == calls.construct <= 1

\* C7: whenever stitch_video returns without raising, a file exists at the
\* returned path; when the encoder exited with 0, it is the non-empty clip
\* the encoder produced.
C7_ReturnedVideoExists ==
    (last.op = "stitch_video" /\ last.raised = "") =>
        /\ IsFile(Fs, last.ret.s)
        /\ (last.env.ffmpeg /\ last.env.encoder # "nonzero")
                => files[last.ret.s].kind = "mp4"

\* Every listed image exists as a file before the call.
ImagesExist(fs) ==
    /\ args.images # <<>>
    /\ \A i \in 1..Len(args.images) : IsFile(fs, args.images[i].s)

\* C8: for a non-empty list of existing images (and a filesystem that accepts
\* the write), stitch_video does not raise when the encoder binary is absent
\* or the encoder exits non-zero: it writes the simulated text file, holding
\* the sentinel message and the first source image's path, at the output path
\* and returns that path.
C8_SimulatedClipOnEncoderFailure ==
    (/\ last.op = "stitch_video"
     /\ ImagesExist(last.before)
     /\ (~last.env.ffmpeg \/ last.env.encoder = "nonzero")
     /\ last.env.io) =>
        /\ last.raised = ""
        /\ last.ret = Str(Resolve(args.output.s))
        /\ IsFile(Fs, args.output.s)
        /\ files[Resolve(args.output.s)] =
                SimulatedVideo(Resolve(args.images[1].s))

\* C8 witness: the encoder binary was found and the process exited
\* non-zero; the call returned.
C8_Witness ==
    /\ last.op = "stitch_video"
    /\ ImagesExist(last.before)
    /\ last.env.ffmpeg
    /\ last.env.encoder = "nonzero"
    /\ Len(args.images) > 1
    /\ last.raised = ""

\* C9: stitch_video raises the invalid-input error when images is empty or
\* any listed path, at any position, is not an existing file; it has then
\* created no directory, written no file, and neither probed for nor started
\* the encoder.
C9_InvalidImagesRejected ==
    (last.op = "stitch_video" /\ ~ImagesExist(last.before)) =>
        /\ last.raised = "ValueError"
        /\ Fs = last.before
        /\ calls.probe = 0
        /\ calls.encoder = 0

\* C9 witness: the first image exists, a later one does not, the output's
\* directory does not exist, and the call was made.
C9_Witness ==
    /\ last.op = "stitch_video"
    /\ Len(args.images) > 1
    /\ IsFile(last.before, args.images[1].s)
    /\ ~ImagesExist(last.before)
    /\ Parent(Resolve(args.output.s)) \notin last.before.dirs
    /\ last.raised = "ValueError"

---------------------------------------------------------------------------
\* Spec: one call of run(topic), a step per stage call with its handler.

Tokens == {None, Str(<<>>), Str(<<" ">>), Str(<<" ", "tok", " ">>)}

Mapping(m) == [kind |-> "mapping", map |-> m]

\* Bodies the remote endpoint answers with.
Bodies ==
    {[kind |-> "not_json", map |-> <<>>], [kind |-> "other", map |-> <<>>],
     Mapping([k \in {"id"} |-> Str(<<"1">>)]),
     Mapping([k \in {"success"} |-> Bool(TRUE)]),
     Mapping([k \in {"success"} |-> Str(<<"false">>)]),
     Mapping([k \in {"success"} |-> None]),
     Mapping([k \in {"success", "error"} |->
                IF k = "success" THEN Bool(FALSE) ELSE Str(<<"denied">>)]),
     Mapping([k \in {"success"} |-> Bool(FALSE)])}

NoBody == [kind |-> "other", map |-> <<>>]

Remotes ==
    {[kind |-> k, status |-> 0, body |-> NoBody] :
        k \in {"open_oserror", "request_exception", "other_error"}}
    \cup {[kind |-> "response", status |-> st, body |-> b] :
            st \in {200, 400, 503}, b \in Bodies}

NoRemote == [kind |-> "none", status |-> 0, body |-> NoBody]

\* Without a credential no upload is attempted and the remote does nothing.
PublishEnvs ==
    {[token |-> t, remote |-> r] : t \in Tokens, r \in Remotes \cup {NoRemote}}
    \ {e \in [token : Tokens, remote : Remotes \cup {NoRemote}] :
        Truthy(_load_token(e.token)) <=> e.remote = NoRemote}

Init ==
    /\ CLIENT \in {"None", "client"}
    /\ get_T2I_pipeline \in {"None", "factory"}
    /\ Image \in {"None", "PIL"}
    /\ cuda = FALSE
    /\ \E fs \in InitialFs : files = fs.files /\ dirs = fs.dirs
    /\ args \in [topic : Topics]
    /\ InitCommon

RunStart ==
    /\ pc = "ready"
    /\ pc' = "caption"
    /\ result' = NewResult(args.topic)
    /\ last' = [op |-> "run", raised |-> "", writes_ok |-> TRUE, credential |-> FALSE]
    /\ calls' = [calls EXCEPT !.entry = @ + 1]
    /\ UNCHANGED <<CLIENT, get_T2I_pipeline, Image, cuda, files, dirs, args, trace>>

RunCaption ==
    /\ pc = "caption"
    /\ \E response \in Responses :
        LET st == CaptionStage(args.topic, CLIENT, response)
        IN  /\ result' = Put(result, "prompt", st.prompt_text)
            /\ last' = [last EXCEPT !.op = "make_prompt", !.raised = st.stage_raised]
            /\ calls' = [calls EXCEPT !.completion = @ + st.requests]
    /\ trace' = Append(trace, [stage |-> "caption", args |-> <<args.topic>>])
    /\ pc' = "image"
    /\ UNCHANGED <<CLIENT, get_T2I_pipeline, Image, cuda, files, dirs, args>>

RunImage ==
    /\ pc = "image"
    /\ \E pipeline \in PipelineOutcomes, io \in BOOLEAN, io_fallback \in BOOLEAN :
        LET env == [factory |-> get_T2I_pipeline, pil |-> Image, cuda |-> cuda,
                    pipeline |-> pipeline, io |-> io, io_fallback |-> io_fallback]
            st == ImageStage(result["prompt"], env, Fs)
        IN  /\ files' = st.fs.files
            /\ dirs' = st.fs.dirs
            /\ last' = [last EXCEPT !.op = "generate_image",
                                    !.raised = st.stage_raised,
                                    !.writes_ok = @ /\ st.stage_raised # "OSError"]
            /\ calls' = [calls EXCEPT !.construct = @ + st.constructs,
                                      !.invoke = @ + st.invokes]
            /\ IF st.escaped = ""
               THEN /\ result' = Put(result, "image_path", st.image_path)
                    /\ pc' = "video"
               ELSE /\ result' = result
                    /\ pc' = "raised"
    /\ trace' = Append(trace, [stage |-> "image",
                               args |-> <<result["prompt"], Str(image_output)>>])
    /\ UNCHANGED <<CLIENT, get_T2I_pipeline, Image, cuda, args>>

RunVideo ==
    /\ pc = "video"
    /\ \E e \in VideoEnvs, io_fallback \in BOOLEAN :
        LET env == [ffmpeg |-> e.ffmpeg, encoder |-> e.encoder, io |-> e.io,
                    io_fallback |-> io_fallback]
            st == VideoStage(result["image_path"], env, Fs)
        IN  /\ files' = st.fs.files
            /\ dirs' = st.fs.dirs
            /\ last' = [last EXCEPT !.op = "stitch_video",
                                    !.raised = st.stage_raised,
                                    !.writes_ok = @ /\ st.stage_raised # "OSError"
                                                    /\ st.escaped = ""]
            /\ calls' = [calls EXCEPT !.probe = @ + st.probes,
                                      !.encoder = @ + st.encoders]
            /\ IF st.escaped = ""
               THEN /\ result' = Put(result, "video_path", st.video_path)
                    /\ pc' = "publish"
               ELSE /\ result' = result
                    /\ pc' = "raised"
    /\ trace' = Append(trace, [stage |-> "video",
                               args |-> <<result["image_path"], Str(video_output)>>])
    /\ UNCHANGED <<CLIENT, get_T2I_pipeline, Image, cuda, args>>

RunPublish ==
    /\ pc = "publish"
    /\ \E env \in PublishEnvs :
        LET st == PublishStage(result["prompt"], result["image_path"], env, Fs)
        IN  /\ result' = Finish(result, st.facebook_response)
            /\ last' = [last EXCEPT !.op = "post_to_facebook",
                                    !.raised = st.stage_raised,
                                    !.credential = Truthy(_load_token(env.token))]
            /\ calls' = [calls EXCEPT !.upload = @ + st.uploads]
    /\ trace' = Append(trace, [stage |-> "publish",
                               args |-> <<result["prompt"], result["image_path"]>>])
    /\ pc' = "returned"
    /\ UNCHANGED <<CLIENT, get_T2I_pipeline, Image, cuda, files, dirs, args>>

Next == RunStart \/ RunCaption \/ RunImage \/ RunVideo \/ RunPublish

Spec == Init /\ [][Next]_vars

---------------------------------------------------------------------------
\* Claims about run().

\* run() has ended: it returned its result or an exception left it.
RunEnded == pc \in {"returned", "raised"}

\* C1: for every non-empty topic and every state of the backends (every
\* write to the filesystem succeeding), run returns a result with a non-empty
\* caption, an image_path and a video_path that exist as files, and a publish
\* result whose success field is a boolean.
C1_ResultWellFormed ==
    (/\ RunEnded
     /\ IsStr(args.topic) /\ args.topic.s # <<>>
     /\ last.writes_ok) =>
        /\ pc = "returned"
        /\ IsStr(result["prompt"]) /\ result["prompt"].s # <<>>
        /\ IsFile(Fs, result["image_path"].s)
        /\ IsFile(Fs, result["video_path"].s)
        /\ "success" \in DOMAIN result["facebook_response"]
        /\ result["facebook_response"]["success"].t = "bool"

\* C2: run never raises to its caller, whatever fails in a stage or in the
\* orchestrator's own fallback steps.
C2_RunNeverRaises == pc # "raised"

\* C3: in every result run returns, the overall success is true if and only
\* if the publish result stored in the same record has success = true.
C3_SuccessMirrorsPublish ==
    pc = "returned" =>
        (result["success"] = Bool(TRUE)
            <=> Get(result["facebook_response"], "success", None) = Bool(TRUE))

StageNames(tr) == [i \in 1..Len(tr) |-> tr[i].stage]

\* C4: within one run the stages are invoked in the order caption, image,
\* video, publish, each exactly once, a stage's exception not preventing the
\* later stages; the image stage receives the caption, the video stage the
\* image path, the publish stage that caption and that image path.
C4_AllStagesInOrder ==
    RunEnded =>
        /\ StageNames(trace) = <<"caption", "image", "video", "publish">>
        /\ trace[2].args[1] = result["prompt"]
        /\ trace[3].args[1] = result["image_path"]
        /\ trace[4].args = <<result["prompt"], result["image_path"]>>

\* C17: within one run there is at most one chat-completion request, at most
\* one invocation of the diffusion pipeline, at most one encoder process
\* started and at most one upload request: no stage calls its backend again
\* after a failure before it falls back.
C17_SingleAttemptPerStage ==
    /\ calls.entry <= 1
    /\ calls.completion <= 1
    /\ calls.invoke <= 1
    /\ calls.encoder <= 1
    /\ calls.upload <= 1

\* C17 witness: a run returned in which every backend was called and failed:
\* the caption is the fallback after a request, the image is the placeholder
\* after an invocation, the clip is the simulated one after an encoder
\* process, the publish result is simulated after an upload request.
C17_Witness ==
    /\ pc = "returned"
    /\ calls.completion = 1 /\ result["prompt"] = Str(DEFAULT_FALLBACK)
    /\ calls.invoke = 1
    /\ IsFile(Fs, OUT_PNG)
    /\ files[Resolve(OUT_PNG)] = PlaceholderContent(DEFAULT_FALLBACK, Image)
    /\ calls.encoder = 1
    /\ IsFile(Fs, OUT_MP4)
    /\ files[Resolve(OUT_MP4)] = SimulatedVideo(Resolve(OUT_PNG))
    /\ calls.upload = 1
    /\ Get(result["facebook_response"], "simulated", None) = Bool(TRUE)

\* C19: in every result run returns, the error field is present exactly when
\* the overall success is false, and the record carries the topic, the
\* caption, the image path, the video path and the publish result.
C19_ErrorIffUnsuccessful ==
    pc = "returned" =>
        /\ {"success", "topic", "prompt", "image_path", "video_path",
            "facebook_response"} \subseteq DOMAIN result
        /\ result["success"].t = "bool"
        /\ "error" \in DOMAIN result <=> result["success"] = Bool(FALSE)
        /\ result["topic"] = args.topic

\* C19 witness: run returned an unsuccessful result whose publish result
\* carries no error description of its own.
C19_Witness ==
    /\ pc = "returned"
    /\ result["success"] = Bool(FALSE)
    /\ "error" \notin DOMAIN result["facebook_response"]
    /\ "error" \in DOMAIN result

---------------------------------------------------------------------------
\* SpecPublish: calls of post_to_facebook.

Captions == {Str(<<>>), Str(<<" ", "Buy", " ">>)}

\* "out.png", "./out.png", the absolute path of out.png, and a path at
\* which there is no file.
ImagePaths ==
    {Str(OUT_PNG), Str(<<".">> \o OUT_PNG), Str(Resolve(OUT_PNG)), Str(MISSING_PNG)}

InitPublish ==
    /\ CLIENT = "None"
    /\ get_T2I_pipeline = "None"
    /\ Image = "None"
    /\ cuda = FALSE
    /\ \E fs \in InitialFs : files = fs.files /\ dirs = fs.dirs
    /\ args \in [text : Captions, image_path : ImagePaths]
    /\ InitCommon

CallPostToFacebook ==
    /\ pc = "ready"
    /\ \E env \in PublishEnvs :
        LET out == post_to_facebook(args.text, args.image_path, env, Fs)
        IN  /\ last' = [op |-> "post_to_facebook", env |-> env,
                        raised |-> out.raised, ret |-> out.ret]
            /\ calls' = [calls EXCEPT !.upload = @ + out.uploads,
                                      !.entry = @ + 1]
    /\ pc' = "done"
    /\ UNCHANGED <<CLIENT, get_T2I_pipeline, Image, cuda, files, dirs, args, result, trace>>

NextPublish == CallPostToFacebook

SpecPublish == InitPublish /\ [][NextPublish]_vars

---------------------------------------------------------------------------
\* Claims about post_to_facebook.

\* A file exists at the image path the call was given.
ImageExists == IsFile(Fs, PathOf(args.image_path.s))

\* A credential is configured: FB_PAGE_TOKEN is set to more than whitespace.
Configured(token) == IsStr(token) /\ Strip(token.s) # <<>>

\* The record is a simulated success that carries the caption and the path.
SimulatedSuccess(ret, text, path) ==
    /\ DOMAIN ret = {"success", "simulated", "platform", "text", "image_path"}
    /\ ret["success"] = Bool(TRUE)
    /\ ret["simulated"] = Bool(TRUE)
    /\ ret["text"] = text
    /\ ret["image_path"] = path

\* C12: post_to_facebook called with an image_path that is not an existing
\* file returns success=false with an error description and makes no upload
\* request, whether or not a credential is configured.
C12_MissingFileFailsFast ==
    (last.op = "post_to_facebook" /\ ~ImageExists) =>
        /\ last.raised = ""
        /\ last.ret["success"] = Bool(FALSE)
        /\ "error" \in DOMAIN last.ret
        /\ IsStr(last.ret["error"]) /\ last.ret["error"].s # <<>>
        /\ "simulated" \notin DOMAIN last.ret
        /\ calls.upload = 0

\* C12 witness: no file at the image path, no credential configured, and the
\* call returned.
C12_Witness ==
    /\ last.op = "post_to_facebook"
    /\ ~ImageExists
    /\ ~Configured(last.env.token)
    /\ last.raised = ""

\* C13: post_to_facebook called with an existing image file and no credential
\* configured (FB_PAGE_TOKEN unset, empty or whitespace only) returns
\* success=true and simulated=true with the caption it was given and the
\* image path it was given (as pathlib renders that path), and makes no
\* upload request.
C13_SimulatedWithoutCredential ==
    (/\ last.op = "post_to_facebook"
     /\ ImageExists
     /\ ~Configured(last.env.token)) =>
        /\ last.raised = ""
        /\ SimulatedSuccess(last.ret, args.text, Str(PathOf(args.image_path.s)))
        /\ calls.upload = 0

\* C13 witness: the image exists, FB_PAGE_TOKEN is set to whitespace, and the
\* call returned.
C13_Witness ==
    /\ last.op = "post_to_facebook"
    /\ ImageExists
    /\ last.env.token = Str(<<" ">>)
    /\ last.raised = ""

\* The upload failed: the image could not be opened, the request raised a
\* transport error, or the remote answered with a status of 400 or more.
UploadFailed(remote) ==
    \/ remote.kind \in {"open_oserror", "request_exception"}
    \/ remote.kind = "response" /\ remote.status >= 400

\* C14: with an existing image file and a configured credential,
\* post_to_facebook returns a simulated success (success=true,
\* simulated=true) whenever opening the image raises an I/O error, the
\* request raises a transport error, or the remote answers with a status of
\* 400 or more, whatever the body; it never returns success=false then.
C14_DegradesOnUploadFailure ==
    (/\ last.op = "post_to_facebook"
     /\ ImageExists
     /\ Configured(last.env.token)
     /\ UploadFailed(last.env.remote)) =>
        /\ last.raised = ""
        /\ SimulatedSuccess(last.ret, args.text, Str(PathOf(args.image_path.s)))

\* C14 witness: the remote answered 503 with a mapping that says
\* success=false, and the call returned.
C14_Witness ==
    /\ last.op = "post_to_facebook"
    /\ ImageExists
    /\ Configured(last.env.token)
    /\ last.env.remote.kind = "response"
    /\ last.env.remote.status = 503
    /\ last.env.remote.body.kind = "mapping"
    /\ Get(last.env.remote.body.map, "success", None) = Bool(FALSE)
    /\ last.raised = ""

\* C15: when the remote answers with a status below 400, post_to_facebook
\* returns the body's mapping with a success field ensured present (true when
\* the body has none) if the body is a mapping, and success=false with the
\* unexpected-response-format error if the body is not a mapping, a body that
\* is not valid JSON included.
C15_ParsedBody ==
    (/\ last.op = "post_to_facebook"
     /\ ImageExists
     /\ Configured(last.env.token)
     /\ last.env.remote.kind = "response"
     /\ last.env.remote.status < 400) =>
        LET body == last.env.remote.body
        IN  /\ last.raised = ""
            /\ IF body.kind = "mapping"
               THEN /\ DOMAIN last.ret = DOMAIN body.map \cup {"success"}
                    /\ \A k \in DOMAIN body.map : last.ret[k] = body.map[k]
                    /\ "success" \notin DOMAIN body.map
                            => last.ret["success"] = Bool(TRUE)
               ELSE /\ last.ret["success"] = Bool(FALSE)
                    /\ Get(last.ret, "error", None) =
                            Str(<<"Unexpected response format from Facebook API.">>)

---------------------------------------------------------------------------
\* SpecDevice: a sequence of _resolve_device calls in one process.

\* Requests of the declared type Optional[str].
DeviceRequests ==
    {None, Str(<<>>), Str(<<"auto">>), Str(<<"cpu">>), Str(<<"cuda:0">>),
     Str(<<"cuda:1">>), Str(<<"mps">>), Str(<<" ", "auto">>)}

InitDevice ==
    /\ CLIENT = "None"
    /\ get_T2I_pipeline = "None"
    /\ Image = "None"
    /\ cuda \in BOOLEAN
    /\ files = NoFiles
    /\ dirs = {CWD}
    /\ args = <<>>
    /\ InitCommon

CallResolveDevice ==
    /\ pc = "ready"
    /\ calls.entry < MaxCalls
    /\ \E requested_device \in DeviceRequests :
        /\ last' = [op |-> "_resolve_device", requested |-> requested_device,
                    ret |-> _resolve_device(requested_device, cuda)]
        /\ trace' = Append(trace, [stage |-> "device", args |-> <<requested_device>>])
    /\ calls' = [calls EXCEPT !.entry = @ + 1]
    /\ UNCHANGED <<CLIENT, get_T2I_pipeline, Image, cuda, files, dirs, args, pc, result>>

NextDevice == CallResolveDevice

SpecDevice == InitDevice /\ [][NextDevice]_vars

\* C16: _resolve_device always returns an identifier: for a request that is
\* absent, empty or "auto" it is "cuda:0" when CUDA is available and "cpu"
\* otherwise; for the request "cpu" it is "cpu"; for any other request it is
\* the request itself when CUDA is available and "cpu" otherwise.  Hence the
\* result differs from "cpu" only when CUDA is available.
C16_DeviceResolved ==
    last.op = "_resolve_device" =>
        LET automatic == last.requested \in {None, Str(<<>>), Str(<<"auto">>)}
            cpu == Str(<<"cpu">>)
        IN  /\ IsStr(last.ret) /\ last.ret.s # <<>>
            /\ automatic =>
                    last.ret = IF cuda THEN Str(<<"cuda:0">>) ELSE cpu
            /\ last.requested = cpu => last.ret = cpu
            /\ (~automatic /\ last.requested # cpu) =>
                    last.ret = IF cuda THEN last.requested ELSE cpu
            /\ last.ret # cpu => cuda

\* C16 witness: an explicit accelerator was requested on a machine without
\* CUDA and the call answered "cpu".
C16_Witness ==
    /\ last.op = "_resolve_device"
    /\ last.requested = Str(<<"cuda:1">>)
    /\ ~cuda
    /\ last.ret = Str(<<"cpu">>)

---------------------------------------------------------------------------
\* app.py

BASE_DIR == <<"/", "app">>
STATIC_DIR == BASE_DIR \o <<"static">>
DEFAULT_IMAGE == STATIC_DIR \o <<"out.png">>

\* A call generate_image(*positional) against the signature
\* (prompt, output_path, device="auto"): a call that leaves a required
\* parameter without argument raises TypeError before the body runs.
BindGenerateImage(positional, env, fs) ==
    IF Len(positional) < 2 \/ Len(positional) > 3
    THEN ImageOutcome("TypeError", None, fs, 0, 0)
    ELSE generate_image(positional[1], positional[2],
                        IF Len(positional) = 3 THEN positional[3]
                        ELSE Str(<<"auto">>), env, fs)

\* url_for("static", filename=name) + "?v=<time>"
StaticUrl(path) == Str(<<"/static/", path[Len(path)], "?v=">>)

Rendered(prompt_value, image_url, error_message, fs, generated) ==
    [prompt_value |-> prompt_value, image_url |-> image_url,
     error_message |-> error_message, fs |-> fs, generated |-> generated]

\* The try block of index: generate, check the file, copy it to the static
\* directory.  `generated` tells whether generate_image returned.
Generate(prompt_value, env, fs) ==
    LET out == BindGenerateImage(<<Str(prompt_value)>>, env, fs)
        unable == Str(<<"Unable to generate image. Please try again.">>)
    IN  IF out.raised # ""
        THEN Rendered(prompt_value, None, unable, out.fs, FALSE)
        ELSE IF ~IsFile(out.fs, out.ret.s)
        THEN Rendered(prompt_value, None, unable, out.fs, TRUE)
        ELSE IF Resolve(out.ret.s) = DEFAULT_IMAGE
        THEN Rendered(prompt_value, StaticUrl(out.ret.s), None, out.fs, TRUE)
        ELSE IF ~env.io
        THEN Rendered(prompt_value, None, unable, out.fs, TRUE)
        ELSE Rendered(prompt_value, StaticUrl(DEFAULT_IMAGE), None,
                      WriteFile(out.fs, DEFAULT_IMAGE,
                                out.fs.files[Resolve(out.ret.s)]), TRUE)

\* form_prompt is request.form.get("prompt"): None when the field is absent.
index(method, form_prompt, env, fs) ==
    LET prompt_value ==
            IF method = "POST" /\ form_prompt # None THEN Strip(form_prompt.s)
            ELSE <<>>
        posted ==
            IF method # "POST" THEN Rendered(prompt_value, None, None, fs, FALSE)
            ELSE IF prompt_value = <<>>
            THEN Rendered(prompt_value, None,
                          Str(<<"Please provide a prompt before generating an image.">>),
                          fs, FALSE)
            ELSE Generate(prompt_value, env, fs)
    IN  IF posted.image_url = None /\ IsFile(posted.fs, DEFAULT_IMAGE)
        THEN [posted EXCEPT !.image_url = StaticUrl(DEFAULT_IMAGE)]
        ELSE posted

---------------------------------------------------------------------------
\* SpecWeb: requests to the front end's index handler.

FormPrompts == {None, Str(<<>>), Str(<<" ">>), Str(<<"cat">>), Str(<<" ", "cat", " ">>)}

\* The static directory exists after import; an earlier request may have
\* left an image there.
InitWeb ==
    /\ CLIENT = "None"
    /\ get_T2I_pipeline \in {"None", "factory"}
    /\ Image \in {"None", "PIL"}
    /\ cuda = FALSE
    /\ files \in {NoFiles, [p \in {DEFAULT_IMAGE} |-> Stale]}
    /\ dirs = {CWD, BASE_DIR, STATIC_DIR}
    /\ args \in [method : {"GET", "POST"}, prompt : FormPrompts]
    /\ InitCommon

CallIndex ==
    /\ pc = "ready"
    /\ \E pipeline \in PipelineOutcomes, io \in BOOLEAN :
        LET env == ImageEnv(pipeline, io)
            out == index(args.method, args.prompt, env, Fs)
        IN  /\ last' = [op |-> "index", env |-> env,
                        prompt_value |-> out.prompt_value,
                        image_url |-> out.image_url,
                        error_message |-> out.error_message,
                        generated |-> out.generated, before |-> Fs]
            /\ files' = out.fs.files
            /\ dirs' = out.fs.dirs
    /\ calls' = [calls EXCEPT !.entry = @ + 1]
    /\ pc' = "done"
    /\ UNCHANGED <<CLIENT, get_T2I_pipeline, Image, cuda, args, result, trace>>

NextWeb == CallIndex

SpecWeb == InitWeb /\ [][NextWeb]_vars

\* C20: for a form submission with a non-empty prompt (the filesystem
\* accepting the writes), the handler's call of generate_image with the
\* caption alone returns a path to an existing file, and the handler answers
\* with an image URL from that generation and no error message, whether or not
\* a diffusion backend is available.
C20_WebGenerationSucceeds ==
    (/\ last.op = "index"
     /\ args.method = "POST"
     /\ args.prompt # None /\ Strip(args.prompt.s) # <<>>
     /\ last.env.io) =>
        /\ last.generated
        /\ last.error_message = None
        /\ last.image_url # None
        /\ IsFile(Fs, DEFAULT_IMAGE)
        /\ files[DEFAULT_IMAGE] # Stale

---------------------------------------------------------------------------
\* Claims about run() without a publish credential.

\* C22: when no publish credential is configured and the filesystem accepts
\* every write, run returns success=true with a simulated publish result and
\* no error field, for every topic (the caption being the fixed string when
\* the topic is empty or not a string) and whatever the completion, diffusion
\* and encoder backends do; the image path handed to the publishing stage
\* exists, so the missing-file failure does not occur.
C22_SimulatedRunSucceeds ==
    (RunEnded /\ last.writes_ok /\ ~last.credential) =>
        /\ pc = "returned"
        /\ result["success"] = Bool(TRUE)
        /\ "error" \notin DOMAIN result
        /\ SimulatedSuccess(result["facebook_response"], result["prompt"],
                            result["image_path"])
        /\ IsFile(Fs, result["image_path"].s)
        /\ ~ValidTopic(args.topic) => result["prompt"] = Str(TEST_CAPTION)

\* C22 witness: run returned for a topic that is not a string, without
\* credential, after the diffusion pipeline was invoked and did not deliver
\* (out.png holds the placeholder) and the encoder was started.
C22_Witness ==
    /\ pc = "returned"
    /\ last.writes_ok /\ ~last.credential
    /\ ~IsStr(args.topic)
    /\ calls.invoke = 1
    /\ calls.encoder = 1
    /\ IsFile(Fs, OUT_PNG)
    /\ files[Resolve(OUT_PNG)] = PlaceholderContent(TEST_CAPTION, Image)
    /\ result["success"] = Bool(TRUE)

=============================================================================
